---- MODULE Spec2Model ----
(***************************************************************************)
(* State machine of src/App.tsx: the rolling window of hive samples        *)
(* (hiveHistory, advanced by the setInterval callback) and the chat        *)
(* session (messages, inputValue, isTyping, advanced by the input's        *)
(* onChange / onKeyDown handlers, the send button and the continuation of  *)
(* handleSendMessage after its await).                                     *)
(*                                                                         *)
(* Every handler runs to completion on the JavaScript event loop, and      *)
(* React re-renders between two discrete events, so each handler is one    *)
(* atomic action reading the state of the latest render.                   *)
(*                                                                         *)
(* A text is a sequence of fragments (strings); the fragments " " and      *)
(* "\t" are whitespace.  A sample keeps its time label and one reading     *)
(* (activity); temp, humidity and weight are drawn in the same way and     *)
(* are read by no handler other than the prompt template.  The chat        *)
(* panel's visibility (isBotOpen) only mounts and unmounts the input and   *)
(* the send button; the handlers are modelled as they fire while the       *)
(* panel is open.                                                           *)
(***************************************************************************)
EXTENDS Integers, Sequences, FiniteSets

VARIABLES
    hiveHistory,   \* useState<HiveData[]>            (line 61)
    now,           \* wall clock in ms since the component mounted
    messages,      \* useState<Message[]>             (line 63)
    inputValue,    \* useState('')                    (line 66)
    isTyping,      \* useState(false)                 (line 67)
    outstanding,   \* generateContent promises not yet settled
    attempts,      \* history: send gestures made (Enter presses, button clicks)
    sent,          \* history: handleSendMessage calls that passed the guard
    completed,     \* history: responder outcomes processed
    ticks,         \* history: interval callbacks run
    log            \* history: for each message, the request and outcome behind it

vars == <<hiveHistory, now, messages, inputValue, isTyping,
          outstanding, attempts, sent, completed, ticks, log>>

feedVars == <<hiveHistory, now, ticks>>
chatVars == <<messages, inputValue, isTyping, outstanding, sent, completed, log>>

----------------------------------------------------------------------------
(* Bounds of the model *)

MaxAttempts == 2
MaxTicks == 2

----------------------------------------------------------------------------
(* Program constants and the values the environment supplies *)

MaxAge == 12
HourMs == 3600000
TickMs == 10000

Capacity == MaxAge + 1

Readings == {70, 99}

Whitespace == {" ", "\t"}

Inputs ==
    { <<>>,
      <<" ", "\t">>,
      <<" ", "How is the hive?", " ">> }

Greeting ==
    <<"Bzzzt! Hello Beekeeper! I'm Honey, your hive assistant. How can I help you today?">>

EmptyFallback ==
    <<"Bzzzt... I'm having trouble connecting to the hive mind. Try again?">>

FailureFallback ==
    <<"Bzzzt... My wings are tired. Please check your connection!">>

ReplyText == <<"All good, bzzt.">>
ErrorDetail == <<"ApiError: 503 Service Unavailable">>

(* What the awaited generateContent call can deliver: a response whose    *)
(* text is a non-empty string, the empty string or undefined, or a        *)
(* rejection carrying an error.                                           *)
Outcomes ==
    { [kind |-> "resolve", hasText |-> TRUE,  text |-> ReplyText, error |-> <<>>],
      [kind |-> "resolve", hasText |-> TRUE,  text |-> <<>>,      error |-> <<>>],
      [kind |-> "resolve", hasText |-> FALSE, text |-> <<>>,      error |-> <<>>],
      [kind |-> "reject",  hasText |-> FALSE, text |-> <<>>,      error |-> ErrorDetail] }

NoOutcome == [kind |-> "none", hasText |-> FALSE, text |-> <<>>, error |-> <<>>]

----------------------------------------------------------------------------
(* Pure helpers *)

RECURSIVE TrimStart(_)
TrimStart(s) ==
    IF s # <<>> /\ Head(s) \in Whitespace THEN TrimStart(Tail(s)) ELSE s

RECURSIVE TrimEnd(_)
TrimEnd(s) ==
    IF s # <<>> /\ s[Len(s)] \in Whitespace
    THEN TrimEnd(SubSeq(s, 1, Len(s) - 1))
    ELSE s

(* String.prototype.trim *)
Trim(s) == TrimEnd(TrimStart(s))

(* toLocaleTimeString([], {hour: '2-digit', minute: '2-digit'}): the minute *)
(* of the day; seconds and the date are dropped.                            *)
TimeLabel(ms) == (ms \div 60000) % 1440

NewSample(ms, a) == [time |-> TimeLabel(ms), activity |-> a]

(* generateMockData: 13 samples, i = 12 down to 0, one hour apart, oldest  *)
(* first; acts[k] is the reading drawn for the k-th pushed sample.         *)
generateMockData(at, acts) ==
    [k \in 1..Capacity |-> NewSample(at - (Capacity - k) * HourMs, acts[k])]

(* The readings the seeded samples may draw.  Each is drawn on its own; the *)
(* model enumerates the windows in which the newest seeded sample varies    *)
(* over Readings and the older ones share the lowest reading.               *)
SeedReadings ==
    { f \in [1..Capacity -> Readings] : \A k \in 1..MaxAge : f[k] = 70 }

(* the window without eviction: [...prev, newData] *)
SlideWindowNoEvict(prev, newData) == Append(prev, newData)

(* the window evicting its newest sample: [...prev.slice(0, -1), newData] *)
SlideWindowEvictNewest(prev, newData) ==
    Append(SubSeq(prev, 1, Len(prev) - 1), newData)

(* [...prev.slice(1), newData] *)
SlideWindow(prev, newData) == Append(Tail(prev), newData)

(* hiveHistory[hiveHistory.length - 1] *)
currentStatus == hiveHistory[Len(hiveHistory)]

(* the guard without trim: !inputValue *)
RejectedUntrimmed(input) == input = <<>>

(* the guard of handleSendMessage: !inputValue.trim() returns *)
Rejected(input) == Trim(input) = <<>>

(* disabled={!inputValue.trim() || isTyping} *)
SendDisabled == Trim(inputValue) = <<>> \/ isTyping

(* const userText = inputValue.trim() *)
UserTextTrimmed(input) == Trim(input)

(* const userText = inputValue *)
UserTextOf(input) == input

(* response.text ?? "<empty fallback>": an empty text is kept *)
ReplyForNullish(o) ==
    IF o.kind = "reject" THEN FailureFallback
    ELSE IF o.hasText THEN o.text
    ELSE EmptyFallback

(* response.text || "<empty fallback>"; the catch branch's fixed text *)
ReplyFor(o) ==
    IF o.kind = "reject" THEN FailureFallback
    ELSE IF o.hasText /\ o.text # <<>> THEN o.text
    ELSE EmptyFallback

(* a catch branch that appends nothing *)
WithReplyUnlessRejected(prev, o) ==
    IF o.kind = "reject" THEN prev
    ELSE Append(prev, [role |-> "bee", text |-> ReplyFor(o)])

(* setMessages(prev => [...prev, {role: 'bee', text}]) in try / catch *)
WithReply(prev, o) == Append(prev, [role |-> "bee", text |-> ReplyFor(o)])

(* setIsTyping(false) at the end of the try block, without finally *)
TypingAfterTryOnly(o) == o.kind = "reject"

(* finally { setIsTyping(false) } *)
TypingAfter(o) == FALSE

----------------------------------------------------------------------------
(* Initial state *)

Init ==
    /\ \E acts \in SeedReadings : hiveHistory = generateMockData(0, acts)
    /\ now = 0
    /\ messages = <<[role |-> "bee", text |-> Greeting]>>
    /\ inputValue = <<>>
    /\ isTyping = FALSE
    /\ outstanding = {}
    /\ attempts = 0
    /\ sent = 0
    /\ completed = 0
    /\ ticks = 0
    /\ log = <<[req |-> 0, outcome |-> NoOutcome]>>

----------------------------------------------------------------------------
(* Actions *)

(* the setInterval callback *)
Tick ==
    /\ ticks < MaxTicks
    /\ \E a \in Readings :
          hiveHistory' = SlideWindow(hiveHistory, NewSample(now + TickMs, a))
    /\ now' = now + TickMs
    /\ ticks' = ticks + 1
    /\ UNCHANGED attempts
    /\ UNCHANGED chatVars

(* onChange: setInputValue(e.target.value) *)
ChangeInput(t) ==
    /\ t # inputValue
    /\ inputValue' = t
    /\ UNCHANGED <<attempts, messages, isTyping, outstanding, sent,
                   completed, log>>
    /\ UNCHANGED feedVars

(* handleSendMessage up to its await *)
handleSendMessage ==
    IF Rejected(inputValue)
    THEN UNCHANGED chatVars
    ELSE /\ messages' = Append(messages,
                               [role |-> "user", text |-> UserTextOf(inputValue)])
         /\ inputValue' = <<>>
         /\ isTyping' = TRUE
         /\ sent' = sent + 1
         /\ outstanding' = outstanding \cup
                {[id |-> sent + 1,
                  userText |-> UserTextOf(inputValue),
                  stats |-> currentStatus]}
         /\ log' = Append(log, [req |-> sent + 1, outcome |-> NoOutcome])
         /\ UNCHANGED completed

(* onKeyDown: e.key === 'Enter' && handleSendMessage() *)
PressEnter ==
    /\ attempts < MaxAttempts
    /\ attempts' = attempts + 1
    /\ handleSendMessage
    /\ UNCHANGED feedVars

(* a click on the send button; a disabled button fires no onClick *)
ClickSend ==
    /\ attempts < MaxAttempts
    /\ attempts' = attempts + 1
    /\ IF SendDisabled THEN UNCHANGED chatVars ELSE handleSendMessage
    /\ UNCHANGED feedVars

(* handleSendMessage after its await: try / catch / finally *)
Settle(r, o) ==
    /\ r \in outstanding
    /\ outstanding' = outstanding \ {r}
    /\ messages' = WithReply(messages, o)
    /\ isTyping' = TypingAfter(o)
    /\ completed' = completed + 1
    /\ log' = Append(log, [req |-> r.id, outcome |-> o])
    /\ UNCHANGED <<inputValue, sent, attempts>>
    /\ UNCHANGED feedVars

SettleSome == \E r \in outstanding, o \in Outcomes : Settle(r, o)

TypeSome == \E t \in Inputs : ChangeInput(t)

Next ==
    \/ Tick
    \/ TypeSome
    \/ PressEnter
    \/ ClickSend
    \/ SettleSome

Spec == Init /\ [][Next]_vars

RequestIds == 1..MaxAttempts

SettleRequest(id) ==
    \E r \in outstanding, o \in Outcomes : r.id = id /\ Settle(r, o)

(* Every dispatched responder call eventually resolves or rejects: the     *)
(* promise of each request settles, and its continuation is then run by    *)
(* the event loop.  The user and the timer are under no obligation.        *)
FairSpec == Spec /\ \A id \in RequestIds : WF_vars(SettleRequest(id))

----------------------------------------------------------------------------
(* Vocabulary of the properties *)

Blank(t) == \A i \in DOMAIN t : t[i] \in {" ", "\t"}

CountRole(role) == Cardinality({i \in DOMAIN messages : messages[i].role = role})

Appended(role) ==
    /\ Len(messages') = Len(messages) + 1
    /\ SubSeq(messages', 1, Len(messages)) = messages
    /\ messages'[Len(messages')].role = role

SendAttempted == attempts' # attempts
SendAccepted == sent' # sent
OutcomeProcessed == completed' # completed
Ticked == ticks' # ticks

OutstandingIds == {r.id : r \in outstanding}

Answered(id) ==
    \E i \in DOMAIN log :
        /\ log[i].req = id
        /\ log[i].outcome.kind # "none"
        /\ i \in DOMAIN messages
        /\ messages[i].role = "bee"

----------------------------------------------------------------------------
(* C1: a send attempted while isTyping is true (by Enter or by the send    *)
(* button) changes nothing: no user Message is appended, no responder      *)
(* request is dispatched and isTyping stays true.                          *)
C1_SendWhilePendingIsNoOp ==
    [][(SendAttempted /\ isTyping) =>
          UNCHANGED <<messages, outstanding, sent, isTyping>>]_vars

(* C2: at most one responder request is outstanding, and isTyping is true  *)
(* exactly when one is.                                                     *)
C2_OneOutstandingIffPending ==
    /\ Cardinality(outstanding) <= 1
    /\ isTyping <=> (Cardinality(outstanding) = 1)

(* C3: a send whose input is empty or only whitespace leaves the           *)
(* transcript, isTyping and the input text unchanged and dispatches no     *)
(* request, whatever the state.                                            *)
C3_BlankSendIsNoOp ==
    [][(SendAttempted /\ Blank(inputValue)) =>
          UNCHANGED <<messages, isTyping, inputValue, outstanding, sent>>]_vars

(* blank sends were attempted, idle and with a whitespace-only input, and  *)
(* none was accepted                                                        *)
C3_Witness ==
    /\ attempts = MaxAttempts
    /\ sent = 0
    /\ inputValue = <<" ", "\t">>
    /\ Len(messages) = 1

(* C4: an accepted send appends exactly one user Message and sets isTyping *)
(* in the same step, processing no outcome; a processed outcome appends    *)
(* exactly one bee Message and clears isTyping.  Hence the bee Messages    *)
(* number 1 + the processed outcomes and the user Messages number the      *)
(* accepted sends.                                                          *)
C4_OneMessagePerSendAndOutcome ==
    /\ [](CountRole("bee") = 1 + completed /\ CountRole("user") = sent)
    /\ [][/\ SendAccepted =>
               Appended("user") /\ isTyping' /\ ~OutcomeProcessed
          /\ OutcomeProcessed =>
               Appended("bee") /\ ~isTyping' /\ ~SendAccepted
          /\ Len(messages') # Len(messages) =>
               SendAccepted \/ OutcomeProcessed]_vars

(* two sends were accepted and both outcomes processed *)
C4_Witness ==
    /\ sent = 2
    /\ completed = 2
    /\ Len(messages) = 5
    /\ ~isTyping

(* C5: the bee Message of a request is fixed by the responder outcome: a   *)
(* non-empty reply text verbatim, the empty-result fallback for an empty   *)
(* or missing text, the failure fallback for a rejection; the two          *)
(* fallbacks differ and no error detail reaches the transcript.            *)
C5_ReplyDeterminedByOutcome ==
    /\ Len(log) = Len(messages)
    /\ \A i \in DOMAIN log :
          LET o == log[i].outcome
              m == messages[i]
          IN  /\ (o.kind = "resolve" /\ o.hasText /\ o.text # <<>>) =>
                    m = [role |-> "bee", text |-> o.text]
              /\ (o.kind = "resolve" /\ (~o.hasText \/ o.text = <<>>)) =>
                    m = [role |-> "bee",
                         text |-> <<"Bzzzt... I'm having trouble connecting to the hive mind. Try again?">>]
              /\ o.kind = "reject" =>
                    m = [role |-> "bee",
                         text |-> <<"Bzzzt... My wings are tired. Please check your connection!">>]
              /\ \A k \in DOMAIN m.text : \A e \in DOMAIN o.error :
                    m.text[k] # o.error[e]
    /\ EmptyFallback # FailureFallback

(* one request resolved with an empty text and one was rejected *)
C5_Witness ==
    /\ \E i \in DOMAIN log :
          log[i].outcome.kind = "resolve" /\ log[i].outcome.hasText
          /\ log[i].outcome.text = <<>>
    /\ \E i \in DOMAIN log : log[i].outcome.kind = "reject"

(* C6: if every dispatched call settles, every state with isTyping true is *)
(* followed by one with isTyping false, and every outstanding request by a *)
(* state with isTyping false whose transcript holds its bee Message.       *)
C6_PendingLeadsToIdle ==
    /\ isTyping ~> ~isTyping
    /\ \A id \in RequestIds :
          (id \in OutstandingIds) ~> (~isTyping /\ Answered(id))

(* a rejected request left the session idle with its fallback shown *)
C6_Witness ==
    /\ ~isTyping
    /\ outstanding = {}
    /\ \E i \in DOMAIN log :
          log[i].outcome.kind = "reject" /\ Answered(log[i].req)

(* C7: after the greeting the Messages alternate user, bee, each bee       *)
(* Message answering the user Message right before it, and when isTyping   *)
(* is false the last Message is a bee Message.                             *)
C7_StrictAlternation ==
    /\ \A i \in 2..Len(messages) :
          /\ messages[i].role = (IF i % 2 = 0 THEN "user" ELSE "bee")
          /\ messages[i].role = "bee" => log[i].req = log[i - 1].req
    /\ ~isTyping => messages[Len(messages)].role = "bee"

(* C8: the window holds exactly 13 samples in every state. *)
C8_WindowLength == Len(hiveHistory) = 13

(* ticks and chat operations have interleaved *)
C8_Witness ==
    /\ ticks = MaxTicks
    /\ sent >= 1
    /\ completed >= 1
    /\ Len(hiveHistory) = 13

(* C9 as stated: the user text handed to the responder is the trimmed      *)
(* input text.                                                              *)
C9_TrimmedTextToResponder ==
    [][SendAccepted =>
          \E r \in outstanding' \ outstanding : r.userText = Trim(inputValue)]_vars

(* C9 as amended: the user text handed to the responder, and shown in the  *)
(* user Message, is the input text as typed, its leading and trailing      *)
(* whitespace kept; trimming only decides whether the send is accepted.    *)
C9_RawTextToResponder ==
    [][SendAccepted =>
          /\ ~Blank(inputValue)
          /\ \E r \in outstanding' \ outstanding : r.userText = inputValue
          /\ messages'[Len(messages')].text = inputValue]_vars

(* a padded input was sent *)
C9_Witness ==
    \E r \in outstanding : r.userText = <<" ", "How is the hive?", " ">>

(* C10: a tick drops the oldest sample, keeps the others in order and puts *)
(* the newly generated sample last; currentStatus is the last element of   *)
(* the window, and after a tick it is the sample of that tick.             *)
C10_TickIsFifo ==
    /\ [](currentStatus = hiveHistory[Len(hiveHistory)])
    /\ [][Ticked =>
            /\ Len(hiveHistory') = Len(hiveHistory)
            /\ \A i \in 1..(Len(hiveHistory) - 1) :
                  hiveHistory'[i] = hiveHistory[i + 1]
            /\ \E a \in Readings :
                  currentStatus' =
                     [time |-> ((now + 10000) \div 60000) % 1440, activity |-> a]]_vars

(* two ticks have slid the window: the seeded sample of ten hours ago is   *)
(* now the oldest and the two newest are the ticks' samples                *)
C10_Witness ==
    /\ ticks = 2
    /\ hiveHistory[1].time = 840
    /\ hiveHistory[Len(hiveHistory) - 1] = [time |-> 0, activity |-> 70]
    /\ hiveHistory[Len(hiveHistory)] = [time |-> 0, activity |-> 99]

====
